---- MODULE Spec2Model ----
(***************************************************************************)
(* Model of the document-processing status view                           *)
(* (frontend/src/components/DocumentProcessingStatus.tsx) and of the       *)
(* Firestore security rules (firestore.rules, src/unnamed/part_000).       *)
(*                                                                         *)
(* Four specifications share the variables:                                *)
(*   Spec          the mounted view of one signed-in principal: snapshots, *)
(*                 the two action handlers, the responses of               *)
(*                 formatDocumentsData;                                    *)
(*   SpecLifecycle the same with the effect's re-subscription on a change  *)
(*                 of principal or of the callback prop, and the unmount;  *)
(*   SpecProgress  calculateProgress applied to large snapshots;           *)
(*   SpecRules     the rules evaluated on one request at a time.           *)
(***************************************************************************)
EXTENDS Integers, Sequences, FiniteSets, TLC

VARIABLES
    currentUser,          \* useAuth().currentUser: a uid or NoUser
    onProcessingComplete, \* the prop: a callback identity or NoCallback
    mounted,              \* the component instance is mounted
    listeners,            \* active onSnapshot listeners: [uid, cb]
    documents,            \* useState<Document[]>
    docsOwner,            \* uid whose listener delivered `documents`
    isFormatting,         \* useState<boolean>
    error,                \* useState<string | null>
    status,               \* useState<string>
    pending,              \* outstanding formatDocumentsData calls, by handler
    lastDelivery,         \* what the latest snapshot delivery did
    lastAction,           \* what the latest action-handler entry did
    request,              \* rules: the request evaluated last
    decision,             \* rules: allow / deny of that request
    enrollments           \* rules: existing users/{uid}/courses/{courseId} records

viewVars == <<currentUser, onProcessingComplete, mounted, listeners, documents,
              docsOwner, isFormatting, error, status, pending, lastDelivery,
              lastAction>>
rulesVars == <<request, decision, enrollments>>
vars == <<viewVars, rulesVars>>

----------------------------------------------------------------------------
(* Bounds *)

\* longest snapshot delivered under Spec
MaxDocs == 2
\* the longest snapshot delivered under SpecLifecycle
MaxLifecycleDocs == 1
\* most formatDocumentsData calls outstanding at once
MaxPending == 2
\* longest snapshot delivered under SpecProgress
MaxBigDocs == 100

----------------------------------------------------------------------------
(* Values *)

NoUser == "none"
Users == {"A", "B"}
NoCallback == "undefined"
Callbacks == {"cb1", "cb2"}

\* a string is the list of the pieces it is assembled from; error === null is
\* the empty list, which no string is
Null == <<>>
EmptyString == <<"">>

\* the four statuses the view counts, and one value standing for a status
\* that is absent or is any other string
KnownStatuses == {"uploaded", "extracted", "processed", "error"}
Statuses == KnownStatuses \cup {"absent"}

\* a Document: id and status (name, documentType and error text are not read
\* by any handler or derived value modelled here)
Doc(i, s) == [id |-> ToString(i), status |-> s]

RECURSIVE SeqsOver(_, _)
SeqsOver(S, n) ==
    IF n = 0 THEN {<<>>}
    ELSE LET shorter == SeqsOver(S, n - 1)
         IN  shorter \cup {Append(q, s) : q \in {r \in shorter : Len(r) = n - 1}, s \in S}

\* the snapshots a listener may be handed: every list of at most MaxDocs
\* documents, document i carrying id i
Snapshots ==
    {[i \in 1..Len(q) |-> Doc(i, q[i])] : q \in SeqsOver(Statuses, MaxDocs)}

\* the statuses that tell the view's buttons and the notification apart:
\* uploaded shows a retry button (as error does), extracted the format
\* button, processed completes
LifecycleStatuses == {"uploaded", "extracted", "processed"}

\* the shorter snapshots delivered where principals and props change as well
ShortSnapshots ==
    {[i \in 1..Len(q) |-> Doc(i, q[i])] :
        q \in SeqsOver(LifecycleStatuses, MaxLifecycleDocs)}

\* a || b on strings
OrElse(a, b) == IF a = "" THEN b ELSE a

\* what formatDocumentsData may answer: {success: true}, {success: false,
\* message?}, or a rejected promise carrying err.message?
Responses ==
    {[kind |-> "success", message |-> ""]}
    \cup {[kind |-> k, message |-> m] :
            k \in {"failure", "throw"}, m \in {"", "server said no"}}

----------------------------------------------------------------------------
(* Derived values of a render *)

\* docs.filter(doc => doc.status === s).length
CountWhere(docs, s) ==
    Cardinality({i \in 1..Len(docs) : docs[i].status = s})

\* a bucket that takes whatever the other three do not
documentCounts_DefaultBucket(docs) ==
    [uploaded  |-> Len(docs) - CountWhere(docs, "extracted")
                             - CountWhere(docs, "processed")
                             - CountWhere(docs, "error"),
     extracted |-> CountWhere(docs, "extracted"),
     processed |-> CountWhere(docs, "processed"),
     error     |-> CountWhere(docs, "error")]

documentCounts(docs) ==
    [uploaded  |-> CountWhere(docs, "uploaded"),
     extracted |-> CountWhere(docs, "extracted"),
     processed |-> CountWhere(docs, "processed"),
     error     |-> CountWhere(docs, "error")]

canFormatOf(docs, formatting) ==
    documentCounts(docs).extracted > 0 /\ ~formatting

canFormat == canFormatOf(documents, isFormatting)

\* docs.every(...) alone, which an empty list satisfies
allProcessed_NoLengthCheck(docs) ==
    \A i \in 1..Len(docs) : docs[i].status = "processed"

\* docs.length > 0 && docs.every(doc => doc.status === 'processed')
allProcessed(docs) ==
    Len(docs) > 0 /\ \A i \in 1..Len(docs) : docs[i].status = "processed"

----------------------------------------------------------------------------
(* IEEE-754 binary64 arithmetic of (completedSteps / totalSteps) * 100 and   *)
(* Math.round.  A double is m * 2^exp, m a natural of at most 53 significant *)
(* bits written as five limbs in base 2^13, the least significant first; the *)
(* fifth limb holds whatever lies above bit 52.                              *)

Base == 2^13

\* carries moved up, every limb but the fifth brought below Base
Normalize(x) ==
    LET t2 == x[2] + x[1] \div Base
        t3 == x[3] + t2 \div Base
        t4 == x[4] + t3 \div Base
        t5 == x[5] + t4 \div Base
    IN  <<x[1] % Base, t2 % Base, t3 % Base, t4 % Base, t5>>

\* 2^i mod t, for i <= 52
Pow2Mod(i, t) ==
    IF i <= 26 THEN (2^i) % t
    ELSE (((2^26) % t) * ((2^(i - 26)) % t)) % t

\* (r * 2^i) mod t: the remainder of the long division of r by t after i bits
RemainderAfter(r, t, i) == (r * Pow2Mod(i, t)) % t

\* the j-th group of 13 bits of r / t after the binary point (r < t)
FractionLimb(r, t, j) == (RemainderAfter(r, t, 13 * (j - 1)) * Base) \div t

\* number of bits of n >= 1
BitLen(n) == CHOOSE b \in 1..31 : 2^(b - 1) <= n /\ (b = 31 \/ n < 2^b)

\* c / t rounded to nearest, ties to even, for naturals with t <= 2 * c <= 2 * t
\* (the quotient lies in [1/2, 1])
DoubleDiv(c, t) ==
    LET s    == IF c >= t THEN 0 ELSE 1
        r0   == c * 2^s - t
        q    == <<FractionLimb(r0, t, 4), FractionLimb(r0, t, 3),
                  FractionLimb(r0, t, 2), FractionLimb(r0, t, 1), 1>>
        rest == RemainderAfter(r0, t, 52)
        up   == 2 * rest > t \/ (2 * rest = t /\ q[1] % 2 = 1)
    IN  [m   |-> Normalize(<<q[1] + (IF up THEN 1 ELSE 0), q[2], q[3], q[4], q[5]>>),
         exp |-> 0 - 52 - s]

\* x * k rounded to nearest, ties to even, for a natural k < 2^12: the bits of
\* the product below its 53 leading ones are rounded away
DoubleTimes(x, k) ==
    LET product == Normalize(<<x.m[1] * k, x.m[2] * k, x.m[3] * k, x.m[4] * k, x.m[5] * k>>)
        unit    == 2^(BitLen(product[5]) - 1)
        low     == product[1] % unit
        up      == \/ 2 * low > unit
                   \/ 2 * low = unit /\ (product[1] \div unit) % 2 = 1
    IN  [m   |-> Normalize(<<product[1] - low + (IF up THEN unit ELSE 0),
                            product[2], product[3], product[4], product[5]>>),
         exp |-> x.exp]

\* Math.round(x) = floor(x + 1/2), for x >= 0 with exp in -64..-52
MathRound(x) ==
    LET sh   == 0 - x.exp
        half == IF sh = 52 THEN x.m[4] \div 2^12
                ELSE (x.m[5] \div 2^(sh - 53)) % 2
    IN  x.m[5] \div 2^(sh - 52) + half

RECURSIVE StepsOf(_, _, _)
\* what the forEach loop of calculateProgress adds to completedSteps for
\* docs[lo..hi], summed by halves
StepsOf(docs, lo, hi) ==
    IF lo > hi THEN 0
    ELSE IF lo = hi
         THEN 1 + (IF docs[lo].status = "extracted" \/ docs[lo].status = "processed"
                   THEN 1 ELSE 0)
         ELSE LET mid == (lo + hi) \div 2
              IN  StepsOf(docs, lo, mid) + StepsOf(docs, mid + 1, hi)

CompletedSteps(docs) == StepsOf(docs, 1, Len(docs))

\* Math.floor in place of Math.round
calculateProgress_Floor(docs) ==
    IF Len(docs) = 0 THEN 0
    ELSE (100 * CompletedSteps(docs)) \div (Len(docs) * 2)

calculateProgress(docs) ==
    IF Len(docs) = 0 THEN 0
    ELSE LET totalSteps == Len(docs) * 2
         IN  MathRound(DoubleTimes(DoubleDiv(CompletedSteps(docs), totalSteps), 100))

progress == calculateProgress(documents)

----------------------------------------------------------------------------
(* The snapshot subscription (useEffect) *)

\* the listener one run of the effect registers: none without a user
EffectListeners(user, cb) ==
    IF user = NoUser THEN {} ELSE {[uid |-> user, cb |-> cb]}

\* an effect that returns no cleanup: the previous listener stays subscribed
RerunEffect_NoCleanup(oldUser, oldCb, newUser, newCb) ==
    listeners \cup EffectListeners(newUser, newCb)

\* React re-runs the effect: the cleanup the previous run returned
\* unsubscribes its listener, then the body subscribes for the new values
RerunEffect(oldUser, oldCb, newUser, newCb) ==
    (listeners \ EffectListeners(oldUser, oldCb)) \cup EffectListeners(newUser, newCb)

\* a callback that latches: it notifies for the first completion only
HandleSnapshot_NotifyOnce(l, docs) ==
    /\ l \in listeners
    /\ documents' = docs
    /\ docsOwner' = l.uid
    /\ lastDelivery' = [emitted           |-> /\ allProcessed(docs)
                                              /\ l.cb # NoCallback
                                              /\ ~lastDelivery.notifiedBefore,
                        priorAllProcessed |-> allProcessed(documents),
                        notifiedBefore    |-> \/ lastDelivery.notifiedBefore
                                              \/ lastDelivery.emitted,
                        count             |-> Len(docs)]
    /\ UNCHANGED <<currentUser, onProcessingComplete, mounted, listeners,
                   isFormatting, error, status, pending, lastAction, rulesVars>>

\* the onSnapshot callback of listener l, handed docs; lastDelivery records
\* whether this delivery called onProcessingComplete, whether the list held
\* before it was all-processed, and whether an earlier delivery called it
HandleSnapshot(l, docs) ==
    /\ l \in listeners
    /\ documents' = docs
    /\ docsOwner' = l.uid
    /\ lastDelivery' = [emitted           |-> allProcessed(docs) /\ l.cb # NoCallback,
                        priorAllProcessed |-> allProcessed(documents),
                        notifiedBefore    |-> \/ lastDelivery.notifiedBefore
                                              \/ lastDelivery.emitted,
                        count             |-> Len(docs)]
    /\ UNCHANGED <<currentUser, onProcessingComplete, mounted, listeners,
                   isFormatting, error, status, pending, lastAction, rulesVars>>

OnSnapshot == \E l \in listeners, docs \in Snapshots : HandleSnapshot(l, docs)

OnShortSnapshot ==
    \E l \in listeners, docs \in ShortSnapshots : HandleSnapshot(l, docs)

----------------------------------------------------------------------------
(* The two action handlers and the responses of formatDocumentsData *)

Outstanding == pending.format + pending.retry

\* handleFormatDocuments up to its await
handleFormatDocuments ==
    IF currentUser = NoUser
    THEN /\ lastAction' = [handler |-> "format", issued |-> FALSE]
         /\ UNCHANGED <<isFormatting, error, status, pending>>
    ELSE /\ Outstanding < MaxPending
         /\ isFormatting' = TRUE
         /\ error' = Null
         /\ status' = <<"Formatting documents...">>
         /\ pending' = [pending EXCEPT !.format = @ + 1]
         /\ lastAction' = [handler |-> "format", issued |-> TRUE]

\* a Format Documents button that is rendered whatever canFormat says
ClickFormat_AlwaysRendered ==
    /\ mounted
    /\ handleFormatDocuments
    /\ UNCHANGED <<currentUser, onProcessingComplete, mounted, listeners,
                   documents, docsOwner, lastDelivery, rulesVars>>

\* the Format Documents button is rendered only when canFormat
ClickFormat ==
    /\ mounted
    /\ canFormat
    /\ handleFormatDocuments
    /\ UNCHANGED <<currentUser, onProcessingComplete, mounted, listeners,
                   documents, docsOwner, lastDelivery, rulesVars>>

\* a handleRetryProcessing without the early return on a missing user
handleRetryProcessing_NoUserCheck(documentId) ==
    /\ Outstanding < MaxPending
    /\ status' = <<"Retrying processing for document ", documentId, "...">>
    /\ error' = Null
    /\ pending' = [pending EXCEPT !.retry = @ + 1]
    /\ lastAction' = [handler |-> "retry", issued |-> TRUE]
    /\ UNCHANGED isFormatting

\* handleRetryProcessing(documentId) up to its await
handleRetryProcessing(documentId) ==
    IF currentUser = NoUser
    THEN /\ lastAction' = [handler |-> "retry", issued |-> FALSE]
         /\ UNCHANGED <<isFormatting, error, status, pending>>
    ELSE /\ Outstanding < MaxPending
         /\ status' = <<"Retrying processing for document ", documentId, "...">>
         /\ error' = Null
         /\ pending' = [pending EXCEPT !.retry = @ + 1]
         /\ lastAction' = [handler |-> "retry", issued |-> TRUE]
         /\ UNCHANGED isFormatting

\* a row shows Process Document / Retry Processing when its document is
\* uploaded or in error
ClickRetry ==
    /\ mounted
    /\ \E i \in 1..Len(documents) :
          /\ documents[i].status \in {"uploaded", "error"}
          /\ handleRetryProcessing(documents[i].id)
    /\ UNCHANGED <<currentUser, onProcessingComplete, mounted, listeners,
                   documents, docsOwner, lastDelivery, rulesVars>>

\* handleFormatDocuments from its await on; the setters of an unmounted
\* component change nothing
FormatContinues(r) ==
    /\ pending.format > 0
    /\ pending' = [pending EXCEPT !.format = @ - 1]
    /\ IF mounted
       THEN /\ status' = IF r.kind = "success"
                         THEN <<"Documents formatted successfully">>
                         ELSE status
            /\ error' = CASE r.kind = "success" -> error
                          [] r.kind = "failure" ->
                               <<OrElse(r.message, "Failed to format documents")>>
                          [] r.kind = "throw" ->
                               <<"Formatting failed: ", OrElse(r.message, "Unknown error")>>
            /\ isFormatting' = FALSE
       ELSE UNCHANGED <<status, error, isFormatting>>
    /\ UNCHANGED <<currentUser, onProcessingComplete, mounted, listeners,
                   documents, docsOwner, lastDelivery, lastAction, rulesVars>>

FormatResponds == \E r \in Responses : FormatContinues(r)

\* handleRetryProcessing from its await on
RetryContinues(r) ==
    /\ pending.retry > 0
    /\ pending' = [pending EXCEPT !.retry = @ - 1]
    /\ IF mounted
       THEN /\ status' = IF r.kind = "success"
                         THEN <<"Document processing initiated successfully">>
                         ELSE status
            /\ error' = CASE r.kind = "success" -> error
                          [] r.kind = "failure" ->
                               <<OrElse(r.message, "Failed to process document")>>
                          [] r.kind = "throw" ->
                               <<"Processing failed: ", OrElse(r.message, "Unknown error")>>
       ELSE UNCHANGED <<status, error>>
    /\ UNCHANGED <<currentUser, onProcessingComplete, mounted, listeners,
                   documents, docsOwner, isFormatting, lastDelivery, lastAction,
                   rulesVars>>

RetryResponds == \E r \in Responses : RetryContinues(r)

----------------------------------------------------------------------------
(* Life cycle: the auth context, the parent's prop, the unmount *)

AuthChanges ==
    /\ mounted
    /\ \E u \in (Users \cup {NoUser}) \ {currentUser} :
          /\ currentUser' = u
          /\ listeners' = RerunEffect(currentUser, onProcessingComplete,
                                      u, onProcessingComplete)
    /\ UNCHANGED <<onProcessingComplete, mounted, documents, docsOwner,
                   isFormatting, error, status, pending, lastDelivery,
                   lastAction, rulesVars>>

PropChanges ==
    /\ mounted
    /\ \E cb \in (Callbacks \cup {NoCallback}) \ {onProcessingComplete} :
          /\ onProcessingComplete' = cb
          /\ listeners' = RerunEffect(currentUser, onProcessingComplete,
                                      currentUser, cb)
    /\ UNCHANGED <<currentUser, mounted, documents, docsOwner, isFormatting,
                   error, status, pending, lastDelivery, lastAction, rulesVars>>

Unmount ==
    /\ mounted
    /\ mounted' = FALSE
    /\ listeners' = listeners \ EffectListeners(currentUser, onProcessingComplete)
    /\ UNCHANGED <<currentUser, onProcessingComplete, documents, docsOwner,
                   isFormatting, error, status, pending, lastDelivery,
                   lastAction, rulesVars>>

----------------------------------------------------------------------------
(* Specifications of the view *)

RulesIdle ==
    /\ request = [auth |-> NoUser, path |-> <<>>, op |-> "get"]
    /\ decision = FALSE
    /\ enrollments = {}

\* the component right after its first render and effect, for a given auth
\* state and prop
MountedWith(user, cb) ==
    /\ currentUser = user
    /\ onProcessingComplete = cb
    /\ mounted = TRUE
    /\ listeners = EffectListeners(user, cb)
    /\ documents = <<>>
    /\ docsOwner = NoUser
    /\ isFormatting = FALSE
    /\ error = Null
    /\ status = EmptyString
    /\ pending = [format |-> 0, retry |-> 0]
    /\ lastDelivery = [emitted |-> FALSE, priorAllProcessed |-> FALSE,
                       notifiedBefore |-> FALSE, count |-> 0]
    /\ lastAction = [handler |-> "none", issued |-> FALSE]

\* Spec: the view of one signed-in principal, with or without the callback
\* prop.  Users and callbacks are interchangeable, so one of each is taken.
Init ==
    /\ \E cb \in {"cb1", NoCallback} : MountedWith("A", cb)
    /\ RulesIdle

Next ==
    \/ OnSnapshot
    \/ ClickFormat
    \/ ClickRetry
    \/ FormatResponds
    \/ RetryResponds

Spec == Init /\ [][Next]_vars

\* SpecLifecycle: the same view under every auth state and prop, with the
\* auth context changing, the parent passing another callback, and the unmount
InitLifecycle ==
    /\ \E u \in Users \cup {NoUser}, cb \in Callbacks \cup {NoCallback} :
          MountedWith(u, cb)
    /\ RulesIdle

NextLifecycle ==
    \/ OnShortSnapshot
    \/ ClickFormat
    \/ ClickRetry
    \/ FormatResponds
    \/ RetryResponds
    \/ AuthChanges
    \/ PropChanges
    \/ Unmount

SpecLifecycle == InitLifecycle /\ [][NextLifecycle]_vars

\* SpecProgress: calculateProgress on the first snapshot a listener delivers,
\* drawn from the small snapshots and from long ones made of a run of
\* completed documents followed by a run of others
Run(n, k, a, b) == [i \in 1..n |-> Doc(i, IF i <= k THEN a ELSE b)]

RunsOfLength(n) ==
    {Run(n, k, a, b) : k \in 0..n, a \in {"extracted", "processed"},
                       b \in {"uploaded", "error"}}

FirstLargeSnapshot ==
    /\ documents = <<>>
    /\ \/ \E l \in listeners, docs \in Snapshots \ {<<>>} : HandleSnapshot(l, docs)
       \/ \E l \in listeners, n \in 1..MaxBigDocs :
             \E docs \in RunsOfLength(n) : HandleSnapshot(l, docs)

SpecProgress == Init /\ [][FirstLargeSnapshot]_vars

----------------------------------------------------------------------------
(* Claims about the view *)

\* number of records of the held snapshot
recordCount == Len(documents)

\* number of held records whose status is extracted or processed
completedCount ==
    Cardinality({i \in 1..Len(documents) :
                    documents[i].status \in {"extracted", "processed"}})

\* a / b rounded to the nearest integer, halves up
RoundHalfUp(a, b) == (2 * a + b) \div (2 * b)

CountsSum ==
    LET c == documentCounts(documents)
    IN  c.uploaded + c.extracted + c.processed + c.error

\* C1: the completion notification is emitted only by a snapshot that is
\* all-processed and follows a snapshot that was not; an all-processed
\* snapshot after an all-processed one emits nothing.
C1_NotifyOnlyOnTransition ==
    lastDelivery.emitted => ~lastDelivery.priorAllProcessed

\* C2: at most one invocation of formatDocumentsData is outstanding, whatever
\* the interleaving of the two handlers and the responses.
C2_AtMostOneOutstanding == Outstanding <= 1

\* C3: retryProcessing entered while isFormatting is true issues no
\* invocation and leaves isFormatting, status, error and documents unchanged.
C3_RetryRejectedWhileFormatting ==
    [][(ClickRetry /\ isFormatting)
          => UNCHANGED <<pending, isFormatting, status, error, documents>>]_vars

\* C4: canFormat is true exactly when the latest snapshot holds an extracted
\* record and no invocation, of either handler, is in flight.
C4_CanFormatIffIdle ==
    canFormat <=> (\E i \in 1..Len(documents) : documents[i].status = "extracted")
                  /\ Outstanding = 0

\* C5 as stated: the four counts sum to the number of records, whatever the
\* records' statuses.
C5_CountsSumToRecordCount == CountsSum = recordCount

\* C5 amended: the four counts sum to the number of records whose status is
\* one of the four, hence to the record count exactly when every record has one.
C5_CountsSumToKnownRecords ==
    /\ CountsSum = Cardinality({i \in 1..Len(documents) :
                                   documents[i].status \in KnownStatuses})
    /\ CountsSum = recordCount
          <=> \A i \in 1..Len(documents) : documents[i].status \in KnownStatuses

C5_Witness ==
    /\ \E i \in 1..Len(documents) : documents[i].status = "absent"
    /\ \E i \in 1..Len(documents) : documents[i].status \in KnownStatuses

\* C6 as stated: progress is round(100 * (n + k) / (2 * n)) for n > 0 records
\* of which k are extracted or processed, 0 for none; 50 for one uploaded
\* record, 75 for one extracted plus one processed, and 100 exactly when
\* every record is extracted or processed.
C6_ProgressAsStated ==
    /\ recordCount = 0 => progress = 0
    /\ recordCount > 0 =>
          /\ progress = RoundHalfUp(100 * (recordCount + completedCount), 2 * recordCount)
          /\ progress = 100 <=> completedCount = recordCount
    /\ (recordCount = 1 /\ documents[1].status = "uploaded") => progress = 50
    /\ (/\ recordCount = 2
        /\ documents[1].status = "extracted"
        /\ documents[2].status = "processed") => progress = 75

\* C6 amended: progress is Math.round of the binary64 value of
\* (n + k) / (2 * n) * 100; it is 0 for no record, equals
\* round(100 * (n + k) / (2 * n)) for fewer than 20 records, is 50 for one
\* uploaded record, 100 for one extracted plus one processed and 75 for one
\* uploaded plus one extracted or processed, is 100 when every record is
\* extracted or processed, and for fewer than 100 records only then.
C6_Progress ==
    /\ recordCount = 0 => progress = 0
    /\ (recordCount > 0 /\ recordCount < 20) =>
          progress = RoundHalfUp(100 * (recordCount + completedCount), 2 * recordCount)
    /\ (recordCount = 1 /\ documents[1].status = "uploaded") => progress = 50
    /\ (/\ recordCount = 2
        /\ documents[1].status = "extracted"
        /\ documents[2].status = "processed") => progress = 100
    /\ (/\ recordCount = 2
        /\ documents[1].status = "uploaded"
        /\ documents[2].status \in {"extracted", "processed"}) => progress = 75
    /\ (recordCount > 0 /\ completedCount = recordCount) => progress = 100
    /\ (recordCount < 100 /\ progress = 100) => completedCount = recordCount

C6_Witness ==
    /\ recordCount = 4
    /\ completedCount = 1
    /\ progress = 63

\* C7: with a snapshot of zero records held, progress is 0, allProcessed and
\* canFormat are false and the delivery emitted no notification, whatever the
\* in-flight flag and the snapshot before.
C7_EmptySnapshot ==
    recordCount = 0 =>
        /\ progress = 0
        /\ ~allProcessed(documents)
        /\ ~canFormat
        /\ ~lastDelivery.emitted

C7_Witness ==
    /\ recordCount = 0
    /\ lastDelivery.priorAllProcessed
    /\ isFormatting
    /\ onProcessingComplete # NoCallback

----------------------------------------------------------------------------
(* The security rules: one request at a time, authorised or not *)

ReadOps == {"get", "list"}
WriteOps == {"create", "update", "delete"}
CourseIds == {"c1", "c2"}

\* the subcollections of users/{userId} that have a match block
RuledSubcollections == {"documents", "formatted_data", "data", "predictions"}

\* document paths requested: a profile, a document of a subcollection with or
\* without a match block, a course, a document of another collection, and a
\* document nested below a ruled subcollection
RequestPaths ==
    {<<"users", u>> : u \in Users}
    \cup {<<"users", u, sub, "x">> :
            u \in Users, sub \in RuledSubcollections \cup {"courses", "notes"}}
    \cup {<<"users", u, "courses", c>> : u \in Users, c \in CourseIds}
    \cup {<<"courses", c>> : c \in CourseIds}
    \cup {<<"admin", "x">>}
    \cup {<<"users", u, "documents", "x", "pages", "p1">> : u \in Users}

Requests ==
    [auth : Users \cup {NoUser}, path : RequestPaths, op : ReadOps \cup WriteOps]

isAuthenticated(req) == req.auth # NoUser

\* a rule that forgets to compare the uid
isOwner_AnyUser(req, userId) == isAuthenticated(req)

isOwner(req, userId) == isAuthenticated(req) /\ req.auth = userId

\* an exists() that looks under every user instead of request.auth.uid
EnrollmentExists_AnyPrincipal(uid, courseId) ==
    \E u \in Users : <<u, courseId>> \in enrollments

\* exists(/databases/$(database)/documents/users/$(uid)/courses/$(courseId))
EnrollmentExists(uid, courseId) == <<uid, courseId>> \in enrollments

\* allow write: if isOwner(userId) in place of allow update
AllowUsers_OwnerWrites(req) ==
    /\ Len(req.path) = 2
    /\ req.path[1] = "users"
    /\ req.op \in ReadOps \cup WriteOps
    /\ isOwner(req, req.path[2])

\* match /users/{userId}
AllowUsers(req) ==
    /\ Len(req.path) = 2
    /\ req.path[1] = "users"
    /\ \/ req.op \in ReadOps \cup {"update"} /\ isOwner(req, req.path[2])
       \/ req.op = "create" /\ FALSE
       \/ req.op = "delete" /\ FALSE

\* a block match /<name>/{id} nested in match /users/{userId}:
\* allow read: if isOwner(userId); allow write: if false
AllowOwnedSubcollection(req, name) ==
    /\ Len(req.path) = 4
    /\ req.path[1] = "users"
    /\ req.path[3] = name
    /\ \/ req.op \in ReadOps /\ isOwner(req, req.path[2])
       \/ req.op \in WriteOps /\ FALSE

AllowDocuments(req) == AllowOwnedSubcollection(req, "documents")
AllowFormattedData(req) == AllowOwnedSubcollection(req, "formatted_data")
AllowData(req) == AllowOwnedSubcollection(req, "data")
AllowPredictions(req) == AllowOwnedSubcollection(req, "predictions")

\* match /courses/{courseId}
AllowCourses(req) ==
    /\ Len(req.path) = 2
    /\ req.path[1] = "courses"
    /\ \/ /\ req.op \in ReadOps
          /\ isAuthenticated(req)
          /\ EnrollmentExists(req.auth, req.path[2])
       \/ req.op \in WriteOps /\ FALSE

\* a catch-all that opens everything below users/{userId} to its owner
AllowDefault_OwnerBelowUsers(req) ==
    /\ Len(req.path) >= 2
    /\ req.path[1] = "users"
    /\ req.op \in ReadOps
    /\ isOwner(req, req.path[2])

\* a catch-all that lets every signed-in user through
AllowDefault_SignedIn(req) ==
    /\ Len(req.path) >= 1
    /\ req.op \in ReadOps \cup WriteOps
    /\ isAuthenticated(req)

\* match /{document=**}
AllowDefault(req) ==
    /\ Len(req.path) >= 1
    /\ req.op \in ReadOps \cup WriteOps /\ FALSE

\* a request is allowed when some allow statement of some matching block
\* grants it
Allowed(req) ==
    \/ AllowUsers(req)
    \/ AllowDocuments(req)
    \/ AllowFormattedData(req)
    \/ AllowData(req)
    \/ AllowPredictions(req)
    \/ AllowCourses(req)
    \/ AllowDefault(req)

Evaluate ==
    /\ \E req \in Requests :
          /\ request' = req
          /\ decision' = Allowed(req)
    /\ UNCHANGED <<enrollments, viewVars>>

\* the records exists() reads are written by the Cloud Functions alone, which
\* the rules do not bind
EnrollmentWritten ==
    /\ \E u \in Users, c \in CourseIds :
          enrollments' = IF <<u, c>> \in enrollments
                         THEN enrollments \ {<<u, c>>}
                         ELSE enrollments \cup {<<u, c>>}
    /\ UNCHANGED <<request, decision, viewVars>>

InitRules == MountedWith(NoUser, NoCallback) /\ RulesIdle

NextRules == Evaluate \/ EnrollmentWritten

SpecRules == InitRules /\ [][NextRules]_vars

----------------------------------------------------------------------------
(* Claims about the rules *)

IsOwnerRequest == request.auth # NoUser /\ request.auth = request.path[2]

OnRuledSubcollection ==
    /\ Len(request.path) = 4
    /\ request.path[1] = "users"
    /\ request.path[3] \in RuledSubcollections

OnProfile == Len(request.path) = 2 /\ request.path[1] = "users"

\* C8: a read of a record of users/{userId}/documents, formatted_data, data
\* or predictions is permitted exactly when the request is authenticated and
\* its principal is userId.
C8_SubcollectionReadIffOwner ==
    (OnRuledSubcollection /\ request.op \in ReadOps) => (decision <=> IsOwnerRequest)

C8_Witness ==
    /\ OnRuledSubcollection
    /\ request.op = "get"
    /\ request.auth = "B"
    /\ request.path[2] = "A"
    /\ ~decision

\* C9: every create, update and delete on a record of those subcollections is
\* denied, for every principal, the owner included.
C9_SubcollectionWritesDenied ==
    (OnRuledSubcollection /\ request.op \in WriteOps) => ~decision

C9_Witness ==
    /\ OnRuledSubcollection
    /\ request.op = "update"
    /\ IsOwnerRequest
    /\ ~decision

\* C10: on the profile users/{userId}, read and update are permitted exactly
\* to the authenticated owner, and create and delete are denied to everyone.
C10_Profile ==
    OnProfile =>
        /\ request.op \in ReadOps \cup {"update"} => (decision <=> IsOwnerRequest)
        /\ request.op \in {"create", "delete"} => ~decision

C10_Witness ==
    /\ OnProfile
    /\ request.op = "update"
    /\ IsOwnerRequest
    /\ decision

OnCourse == Len(request.path) = 2 /\ request.path[1] = "courses"

\* a step that evaluates a request: the stored records are as they were
Evaluated == enrollments' = enrollments

\* C11: a read of courses/{courseId} is permitted exactly when the request is
\* authenticated and users/{its principal}/courses/{courseId} exists at the
\* time of the request, another principal's enrollment granting nothing, and
\* every write to courses/{courseId} is denied.
C11_CourseReadIffEnrolled ==
    [][(Evaluated /\ OnCourse') =>
          /\ request'.op \in ReadOps =>
                (decision' <=> /\ request'.auth # NoUser
                               /\ <<request'.auth, request'.path[2]>> \in enrollments')
          /\ request'.op \in WriteOps => ~decision']_vars

C11_Witness ==
    /\ OnCourse
    /\ request.op = "get"
    /\ request.auth = "A"
    /\ <<"B", request.path[2]>> \in enrollments
    /\ <<"A", request.path[2]>> \notin enrollments
    /\ ~decision

\* a path some block other than the catch-all matches
ExplicitlyMatched(path) ==
    \/ Len(path) = 2 /\ path[1] \in {"users", "courses"}
    \/ Len(path) = 4 /\ path[1] = "users" /\ path[3] \in RuledSubcollections

\* what the blocks other than the catch-all grant
ExplicitlyGranted(req) ==
    \/ AllowUsers(req)
    \/ AllowDocuments(req)
    \/ AllowFormattedData(req)
    \/ AllowData(req)
    \/ AllowPredictions(req)
    \/ AllowCourses(req)

\* C12: a request on a path that only the catch-all matches (the enrollment
\* marker users/{userId}/courses/{courseId}, another top-level collection, a
\* deeper document) is denied for every principal and operation, and with
\* the catch-all a request is granted exactly when an explicit block grants it.
C12_FailClosedDefault ==
    [][Evaluated =>
          /\ ~ExplicitlyMatched(request'.path) => ~decision'
          /\ decision' <=> ExplicitlyGranted(request')]_vars

C12_Witness ==
    /\ request.path = <<"users", "A", "courses", "c1">>
    /\ request.auth = "A"
    /\ request.op = "get"
    /\ ~decision

----------------------------------------------------------------------------
(* Claims about the responses and the notification *)

\* a step in which an invocation of formatDocumentsData ends in failure
FailureResponse ==
    \E r \in Responses :
        r.kind # "success" /\ (FormatContinues(r) \/ RetryContinues(r))

\* a step in which an invocation of formatDocumentsData ends in success
SuccessResponse ==
    \E r \in Responses :
        r.kind = "success" /\ (FormatContinues(r) \/ RetryContinues(r))

SuccessMessages ==
    {<<"Documents formatted successfully">>,
     <<"Document processing initiated successfully">>}

\* C13: when an invocation of formatDocumentsData ends in failure (a
\* success:false response or a thrown error), right after it isFormatting is
\* false, a non-empty error is shown, the held documents are as before and
\* the subscription is still active.  (The claim's last clause, that the flag
\* is eventually false after every response, is a liveness property that
\* holds when every invocation is answered; the clauses here are the ones a
\* finite run can break.)
C13_FailureClearsFlag ==
    [][FailureResponse =>
          /\ ~isFormatting'
          /\ error' \notin {Null, EmptyString}
          /\ documents' = documents
          /\ listeners' = listeners
          /\ listeners' # {}]_vars

\* C14: right after a response indicating success is handled, no error is
\* shown (also not one another action surfaced in the meantime) and the
\* status is a success message.
C14_SuccessClearsError ==
    [][SuccessResponse => (error' = Null /\ status' \in SuccessMessages)]_vars

\* C15: a snapshot that is all-processed again, after an earlier all-processed
\* snapshot has notified and the snapshot before this one was not
\* all-processed, calls onProcessingComplete (once: the callback has one call
\* site and there is one listener).
C15_NotifiesAgainAfterRegression ==
    (/\ lastDelivery.notifiedBefore
     /\ ~lastDelivery.priorAllProcessed
     /\ allProcessed(documents)
     /\ onProcessingComplete # NoCallback) => lastDelivery.emitted

C15_Witness ==
    /\ lastDelivery.notifiedBefore
    /\ ~lastDelivery.priorAllProcessed
    /\ lastDelivery.count > 0
    /\ allProcessed(documents)
    /\ lastDelivery.emitted

----------------------------------------------------------------------------
(* Claims about the subscription, the principal and the in-flight flag *)

\* C16: a mounted view has at most one active subscription, the one of the
\* effect's latest run (a re-run cancels the previous listener before it
\* subscribes again); after the unmount none is active and no snapshot can be
\* handled.
C16_AtMostOneSubscription ==
    /\ Cardinality(listeners) <= 1
    /\ mounted => listeners = EffectListeners(currentUser, onProcessingComplete)
    /\ ~mounted => (listeners = {} /\ ~ENABLED OnSnapshot)

\* the effect has re-run for another principal after a delivery
C16_Witness ==
    /\ mounted
    /\ currentUser = "B"
    /\ docsOwner = "A"
    /\ Cardinality(listeners) = 1

\* C17: the documents held are records of the current principal only: after
\* the principal has changed (to another one or to none) nothing delivered by
\* the previous principal's subscription is still held.
C17_DocumentsOfCurrentUser ==
    (mounted /\ documents # <<>>) => docsOwner = currentUser

C19_NoUserNoOp ==
    [][/\ currentUser = NoUser => listeners = {}
       /\ currentUser' = NoUser => listeners' = {}
       /\ (currentUser = NoUser /\ (ClickFormat \/ ClickRetry)) =>
             /\ ~lastAction'.issued
             /\ UNCHANGED <<pending, isFormatting, status, error, documents>>]_vars

\* a button of a view without user was clicked
C19_Witness ==
    /\ mounted
    /\ currentUser = NoUser
    /\ listeners = {}
    /\ documents # <<>>
    /\ lastAction \in {[handler |-> h, issued |-> FALSE] : h \in {"format", "retry"}}

====
